---- MODULE Spec2Model ----
(***************************************************************************)
(* Design-feedback CLI: the vision-analysis executor (VisionService), its  *)
(* error classifier, and the logging the CLI does around it.               *)
(*                                                                         *)
(* Text values are sequences of parts (a part is a string; an API key is   *)
(* a sequence of one-character strings) so that slicing and containment    *)
(* can be computed.                                                        *)
(***************************************************************************)
EXTENDS Integers, Sequences, FiniteSets, TLC

\* ------------------------------------------------------------------ bounds

\* Number of API keys tried; they share their first 7 characters.
NumKeys == 2

\* Number of lines of the longest critique handed to the formatter.
MaxLines == 3

\* ------------------------------------------------------- program constants

maxRetries == 3
retryDelay == 1000
timeout == 30000
\* options.apiKey.slice(0, 7)
KeyPrefixLen == 7
\* `status: number | undefined`: the absent status
Undefined == 0

\* --------------------------------------------------------------- the remote

\* What one remote call (openai.chat.completions.create) can do.
SuccessResponses == {"OkContent", "OkEmpty", "OkNoChoices", "Malformed"}
ApiResponses == {"Api400", "Api401", "Api404", "Api415", "Api429", "Api500", "Api503", "ApiNoStatus"}
RejectResponses == ApiResponses \cup {"FetchError", "ThrowString"}
\* "Hang": the call does not settle within the timeout window.
Responses == SuccessResponses \cup RejectResponses \cup {"Hang"}

StatusOf(resp) ==
  CASE resp = "Api400" -> 400
    [] resp = "Api401" -> 401
    [] resp = "Api404" -> 404
    [] resp = "Api415" -> 415
    [] resp = "Api429" -> 429
    [] resp = "Api500" -> 500
    [] resp = "Api503" -> 503
    [] OTHER -> Undefined

NoError == [cls |-> "none", name |-> "", status |-> Undefined, message |-> "", body |-> ""]

\* The value a rejected remote call rejects with.
RejectionOf(resp) ==
  CASE resp \in ApiResponses ->
         [cls |-> "APIError", name |-> "Error", status |-> StatusOf(resp),
          message |-> "api message", body |-> "api body"]
    [] resp = "FetchError" ->
         [cls |-> "Error", name |-> "FetchError", status |-> Undefined,
          message |-> "fetch failed", body |-> ""]
    [] OTHER ->
         [cls |-> "NonError", name |-> "", status |-> Undefined,
          message |-> "thrown string", body |-> ""]

\* ------------------------------------------------------------------- keys

Min(a, b) == IF a < b THEN a ELSE b

KeyPrefix == <<"s", "k", "-", "p", "r", "o", "j">>
SuffixChars == <<"A", "B", "C", "D">>
Keys == {KeyPrefix \o <<"-", SuffixChars[i]>> : i \in 1..Min(NumKeys, Len(SuffixChars))}

\* String.prototype.slice(0, n)
Slice(s, n) == SubSeq(s, 1, Min(n, Len(s)))

\* whether text `t` contains `s` as a contiguous run
Contains(t, s) ==
  \E i \in 1..(Len(t) - Len(s) + 1) : SubSeq(t, i, i + Len(s) - 1) = s

\* ------------------------------------------------------------------ state

VARIABLES
  pc,          \* where the run is: "cli", "prepare", "website", "vision",
               \* "issue", "race", "backoff", "done"; "format" for the
               \* formatter on its own; "key", "resolved" for ensureApiKey
               \* on its own
  verbose,     \* --verbose
  cliKeyGiven, \* --api-key was passed on the command line
  apiKey,      \* the key the analysis runs with
  attempt,     \* callOpenAI's loop variable
  lastError,   \* callOpenAI's lastError
  pending,     \* the behaviour of the remote call being raced, or "none"
  events,      \* what the invocation did so far: image reads, remote calls, backoff delays
  result,      \* what analyzeScreenshot returned, tag "none" while it has not
  logs,        \* the records written to the log
  invocation,  \* number of the current analyzeScreenshot invocation
  prev,        \* key, events and result of the previous invocation
  analysisContent,  \* AnalysisResult.content handed to JsonFormatter.format
  formatted,   \* the last format call: what it derived from the content (output)
               \* and the IssueMeta its extractIssues ended with (current)
  prevOutput,  \* what the format call on `content` before the last one derived
  cliError,    \* the error the CLI action handed to getExitCode, if any
  exitCalls,   \* the calls of exitWithTimeout(exitCode, reason) so far
  keySources,  \* where ensureApiKey can find a key: --api-key, the environment,
               \* the config file, the answer at the prompt
  keyResult,   \* what ensureApiKey returned, the sources it looked at, what it saved
  validatedOptions,  \* validateOptions' result: the capture options of the command line
  screenshotOptions, \* the ScreenshotOptions handed to ScreenshotService.capture
  files,       \* the paths that name a file on disk
  websiteResult, \* what analyzeWebsite returns (returned once pc = "returned")
  cleanup,     \* what rm(screenshot.path) did: "none" (not called), "removed", "failed"
  now,         \* milliseconds since analyzeScreenshot was invoked
  timers,      \* the setTimeout timers that are pending (none is ever unref'd)
  inFlight,    \* the numbers of the remote calls issued and not yet completed
  late,        \* the numbers of the remote calls that completed after their
               \* attempt had timed out
  stdout,      \* what the CLI printed with console.log
  processExit  \* how the process ended and with which exit code, once it has

vars == <<pc, verbose, cliKeyGiven, apiKey, attempt, lastError, pending, events,
          result, logs, invocation, prev, analysisContent, formatted, prevOutput,
          cliError, exitCalls, keySources, keyResult,
          validatedOptions, screenshotOptions, files, websiteResult, cleanup,
          now, timers, inFlight, late, stdout, processExit>>

cliVars == <<pc, verbose, cliKeyGiven, apiKey, attempt, lastError, pending, events,
             result, logs, invocation, prev>>
fmtVars == <<analysisContent, formatted, prevOutput>>
exitVars == <<cliError, exitCalls>>
keyVars == <<keySources, keyResult>>
siteVars == <<validatedOptions, screenshotOptions, files, websiteResult, cleanup>>
raceVars == <<now, timers, inFlight, late>>
procVars == <<stdout, processExit>>

structuredOutput == formatted.output
lastMeta == formatted.current

NoResult ==
  [tag |-> "none", type |-> "", code |-> "", message |-> <<>>, status |-> Undefined,
   details |-> <<>>, content |-> ""]

NoPrev == [set |-> FALSE, key |-> <<>>, events |-> <<>>, result |-> NoResult]

ReadEvent(outcome) == [kind |-> "read", resp |-> outcome, ms |-> 0]
CallEvent(resp) == [kind |-> "call", resp |-> resp, ms |-> 0]
DelayEvent(ms) == [kind |-> "delay", resp |-> "", ms |-> ms]

IsCall(e) == e.kind = "call"
IsDelay(e) == e.kind = "delay"
IsRead(e) == e.kind = "read"
Calls == SelectSeq(events, IsCall)
Delays == SelectSeq(events, IsDelay)
Reads == SelectSeq(events, IsRead)

\* ----------------------------------------------------------------- logger

\* createLogger: level is "debug" with --verbose, else "warn"
LevelEnabled(level) == level \in {"warn", "error"} \/ verbose

\* An object handed to the logger is a sequence of properties
\* [k |-> name, v |-> text, defined |-> BOOLEAN].
Prop(k, v) == [k |-> k, v |-> v, defined |-> TRUE]
OptionalProp(k, v, defined) == [k |-> k, v |-> v, defined |-> defined]

\* JSON.stringify(value, null, 2) of an object: the properties that are
\* defined, each as "name": "value".
RECURSIVE JSONstringify(_)
JSONstringify(props) ==
  IF props = <<>> THEN <<>>
  ELSE (IF Head(props).defined
        THEN <<"\"", Head(props).k, "\": \"">> \o Head(props).v \o <<"\"">>
        ELSE <<>>)
       \o JSONstringify(Tail(props))

\* formatObject: one line per property, `  ${key}: ${value}`; a nested
\* object's value is its JSON.stringify text (already in v).
RECURSIVE formatObject(_)
formatObject(props) ==
  IF props = <<>> THEN <<>>
  ELSE <<"  ", Head(props).k, ": ">> \o Head(props).v \o formatObject(Tail(props))

\* EnhancedLogger.debugObject: this.debug(`${msg}\n${formatObject(obj)}`)
debugObject(msg, props) ==
  IF LevelEnabled("debug")
  THEN {[level |-> "debug", text |-> <<msg, "\n">> \o formatObject(props), args |-> <<>>]}
  ELSE {}

\* logger.<level>(msg, obj) called on the pino logger directly: the record's
\* text is msg; obj is handed over as an interpolation value (args).
pinoLog(level, msg, props) ==
  IF LevelEnabled(level)
  THEN {[level |-> level, text |-> <<msg>>, args |-> formatObject(props)]}
  ELSE {}

\* the CLI's options object as commander fills it
CliOptions == <<OptionalProp("apiKey", apiKey, cliKeyGiven), Prop("format", <<"text">>)>>

\* VisionAnalysisOptions / AnalysisOptions
KeyedOptions == <<Prop("viewport", <<"desktop">>), Prop("apiKey", apiKey)>>

\* logApiCallStart
logApiCallStart ==
  pinoLog("debug", "Starting OpenAI API call sequence",
          <<Prop("apiKeyPrefix", Slice(apiKey, KeyPrefixLen) \o <<"...">>)>>)

\* ------------------------------------------------------- error classifier

Failure(type, code, message, status, details) ==
  [tag |-> "Err", type |-> type, code |-> code, message |-> message, status |-> status,
   details |-> details, content |-> ""]

Success(content) ==
  [tag |-> "Ok", type |-> "", code |-> "", message |-> <<>>, status |-> Undefined,
   details |-> <<>>, content |-> content]

\* error instanceof OpenAI.APIError
IsApiError(error) == error.cls = "APIError"
\* error instanceof Error
IsError(error) == error.cls \in {"APIError", "Error"}

\* faulty variant: the server-error test excludes 500 itself
getApiErrorCodeAbove500(status) ==
  IF status = 429 THEN "RATE_LIMIT"
  ELSE IF status = 401 THEN "INVALID_KEY"
  ELSE IF status = 400 THEN "BAD_REQUEST"
  ELSE IF status = 415 THEN "INVALID_IMAGE"
  ELSE IF status # Undefined /\ status > 500 THEN "SERVER_ERROR"
  ELSE "NETWORK_ERROR"

getApiErrorCode(status) ==
  IF status = 429 THEN "RATE_LIMIT"
  ELSE IF status = 401 THEN "INVALID_KEY"
  ELSE IF status = 400 THEN "BAD_REQUEST"
  ELSE IF status = 415 THEN "INVALID_IMAGE"
  ELSE IF status # Undefined /\ status >= 500 THEN "SERVER_ERROR"
  ELSE "NETWORK_ERROR"

\* faulty variant: the key of the request is attached to the details
handleApiErrorWithKey(error) ==
  Failure("API_ERROR", getApiErrorCode(error.status),
          <<"OpenAI API error: ", error.message>>, error.status,
          <<"json: ", error.body, "key: ">> \o apiKey)

handleApiError(error) ==
  Failure("API_ERROR", getApiErrorCode(error.status),
          <<"OpenAI API error: ", error.message>>, error.status,
          <<"json: ", error.body>>)

handleNetworkError(error) ==
  Failure("NETWORK_ERROR", "CONNECTION_ERROR",
          <<"Network error while calling OpenAI API. Please check your internet connection. ",
            error.message>>,
          Undefined, <<>>)

handleGenericError(error) ==
  Failure("ANALYSIS_ERROR", "PROCESSING_FAILED",
          IF IsError(error) THEN <<error.message>> ELSE <<"Unknown error during analysis">>,
          Undefined, <<>>)

handleError(error) ==
  IF IsApiError(error) THEN handleApiError(error)
  ELSE IF IsError(error) /\ error.name = "FetchError" THEN handleNetworkError(error)
  ELSE handleGenericError(error)

\* faulty variant: the lower bound of the client-error range is exclusive
shouldNotRetryAbove400(error) ==
  /\ IsApiError(error)
  /\ error.status # Undefined
  /\ error.status > 400
  /\ error.status < 500

shouldNotRetry(error) ==
  /\ IsApiError(error)
  /\ error.status # Undefined
  /\ error.status >= 400
  /\ error.status < 500

\* ------------------------------------------------------------ one attempt

RECURSIVE Pow2(_)
Pow2(n) == IF n <= 0 THEN 1 ELSE 2 * Pow2(n - 1)

\* faulty variant: the delay grows linearly
BackoffDelayLinear(a) == retryDelay * a

\* handleRetryBackoff: retryDelay * Math.pow(2, attempt - 1)
BackoffDelay(a) == retryDelay * Pow2(a - 1)

\* faulty variant: the timer is never set
createTimeoutPromiseUnarmed ==
  [armed |-> FALSE, after |-> timeout,
   reason |-> [cls |-> "Error", name |-> "Error", status |-> Undefined,
               message |-> "Request timeout", body |-> ""]]

\* createTimeoutPromise: a timer that rejects with Error("Request timeout")
\* after `timeout` ms.
createTimeoutPromise ==
  [armed |-> TRUE, after |-> timeout,
   reason |-> [cls |-> "Error", name |-> "Error", status |-> Undefined,
               message |-> "Request timeout", body |-> ""]]

\* A pending setTimeout timer is a record: what it is for, the remote call it
\* belongs to, when it was set and when it is due.

\* faulty variant: one deadline for the whole invocation
timeoutTimerShared(call, issuedAt) ==
  IF createTimeoutPromise.armed
  THEN {[kind |-> "timeout", call |-> call, setAt |-> issuedAt,
         due |-> createTimeoutPromise.after]}
  ELSE {}

\* the timer createTimeoutPromise sets when the remote call is issued
timeoutTimer(call, issuedAt) ==
  IF createTimeoutPromise.armed
  THEN {[kind |-> "timeout", call |-> call, setAt |-> issuedAt,
         due |-> issuedAt + createTimeoutPromise.after]}
  ELSE {}

\* the timers still pending once the clock shows t: a due timer fires
PendingAt(ts, t) == {tm \in ts : tm.due > t}

\* the time at which Promise.race settles: at once when the remote call
\* answers (its latency is not counted), else when the attempt's timer fires
RaceSettledAt(resp, call, ts, t) ==
  LET due == (CHOOSE tm \in ts : tm.kind = "timeout" /\ tm.call = call).due
  IN IF resp # "Hang" \/ due < t THEN t ELSE due

\* faulty variant: the race in progress takes the answer of an earlier call
afterLateResponseShared(current, lateResp) == IF current = "Hang" THEN lateResp ELSE current

\* Promise.race of the current attempt holds that attempt's own
\* completionPromise: the answer of an earlier call does not reach it
afterLateResponse(current, lateResp) == current

\* logSuccessfulRequest reads completion.choices.length: a completion without
\* a choices array makes it throw a TypeError.
MalformedError ==
  [cls |-> "Error", name |-> "TypeError", status |-> Undefined,
   message |-> "Cannot read properties of undefined", body |-> ""]

\* faulty variant: a completion without content is accepted
processOpenAIResponseLenient(resp) == Success("analysis text")

\* processOpenAIResponse: Ok with the content, or Err when
\* completion.choices[0]?.message?.content is empty
processOpenAIResponse(resp) ==
  IF resp = "OkContent"
  THEN Success("analysis text")
  ELSE Failure("ANALYSIS_ERROR", "INVALID_RESPONSE",
               <<"No analysis content received from OpenAI">>, Undefined, <<>>)

\* Promise.race([completionPromise, timeoutPromise]) settles at all
RaceSettles(resp) == resp # "Hang" \/ createTimeoutPromise.armed

\* attemptApiRequest: Ok(result) or Err(error) of one raced request
attemptApiRequest(resp) ==
  IF resp = "Hang"
  THEN [ok |-> FALSE, val |-> NoResult, err |-> createTimeoutPromise.reason]
  ELSE IF resp \in RejectResponses
  THEN [ok |-> FALSE, val |-> NoResult, err |-> RejectionOf(resp)]
  ELSE IF resp = "Malformed"
  THEN [ok |-> FALSE, val |-> NoResult, err |-> MalformedError]
  ELSE [ok |-> TRUE, val |-> processOpenAIResponse(resp), err |-> NoError]

\* faulty variant: the read error is swallowed
ReadFailedIgnored(outcome) == FALSE

\* imageToBase64: readFile threw, so the result is an Err
ReadFailed(outcome) == outcome = "fail"

\* imageToBase64's Err
imageToBase64Error ==
  Failure("FILE_SYSTEM_ERROR", "READ_ERROR",
          <<"Failed to read image file", ": ", "ENOENT">>, Undefined, <<>>)

\* faulty variant: only the first error is kept
SaveErrorKeepFirst(old, new) == IF old = NoError THEN new ELSE old

\* callOpenAI: lastError = requestResult.val
SaveError(old, new) == new

\* ------------------------------------------------------------------- text
\* A string handled by the formatter is a sequence of tokens: a word, a
\* punctuation mark, a space " " or a line feed "\n".

IsSpace(t) == t \in {" ", "\n"}

\* the bullet character U+2022
BulletMark == "U+2022"

\* String.prototype.toLowerCase, word by word
toLowerCaseWord(w) ==
  CASE w = "Critical" -> "critical"
    [] w = "Major" -> "major"
    [] w = "Minor" -> "minor"
    [] w = "Issues" -> "issues"
    [] w = "Navigation" -> "navigation"
    [] w = "Overall" -> "overall"
    [] w = "Assessment" -> "assessment"
    [] w = "No" -> "no"
    [] w = "PAGE" -> "page"
    [] w = "Page" -> "page"
    [] w = "DESCRIPTION" -> "description"
    [] w = "The" -> "the"
    [] w = "Shop" -> "shop"
    [] w = "A" -> "a"
    [] OTHER -> w

toLowerCase(s) == [i \in 1..Len(s) |-> toLowerCaseWord(s[i])]

startsWith(s, p) == Len(p) <= Len(s) /\ SubSeq(s, 1, Len(p)) = p

\* String.prototype.includes
includes(s, p) ==
  IF Len(p) = 1 THEN \E i \in 1..Len(s) : s[i] = p[1]
  ELSE \E i \in 1..(Len(s) - Len(p) + 1) :
         s[i] = p[1] /\ SubSeq(s, i, i + Len(p) - 1) = p

RECURSIVE trimStart(_)
trimStart(s) == IF s # <<>> /\ IsSpace(Head(s)) THEN trimStart(Tail(s)) ELSE s

RECURSIVE trimEnd(_)
trimEnd(s) ==
  IF s # <<>> /\ IsSpace(s[Len(s)]) THEN trimEnd(SubSeq(s, 1, Len(s) - 1)) ELSE s

\* String.prototype.trim
trim(s) == trimEnd(trimStart(s))

\* index of the first token `sep` of s, 0 when there is none
RECURSIVE IndexOf(_, _, _)
IndexOf(s, sep, from) ==
  IF from > Len(s) THEN 0
  ELSE IF s[from] = sep THEN from
  ELSE IndexOf(s, sep, from + 1)

\* String.prototype.split(sep): the parts between the separators
RECURSIVE split(_, _)
split(s, sep) ==
  LET i == IndexOf(s, sep, 1)
  IN IF i = 0 THEN <<s>>
     ELSE <<SubSeq(s, 1, i - 1)>> \o split(SubSeq(s, i + 1, Len(s)), sep)

\* Array.prototype.join(sep)
RECURSIVE join(_, _)
join(parts, sep) ==
  IF parts = <<>> THEN <<>>
  ELSE IF Len(parts) = 1 THEN parts[1]
  ELSE parts[1] \o <<sep>> \o join(Tail(parts), sep)

\* Array.prototype.findIndex over the tests' answers, 0 when none is true
findIndex(answers) ==
  IF \A i \in 1..Len(answers) : ~answers[i] THEN 0
  ELSE CHOOSE i \in 1..Len(answers) : answers[i] /\ \A j \in 1..(i - 1) : ~answers[j]

\* ---------------------------------------------------------- JSON formatter

PageDescriptionPrefix == <<"page", " ", "description", ":">>
PageDescriptionFallback == <<"No page description provided.">>
SummaryFallback == <<"Design analysis completed successfully.">>

noIssuesIndicators ==
  << <<"no", " ", "critical", " ", "layout", " ", "issues", " ", "found">>,
     <<"no", " ", "issues", " ", "found">>,
     <<"no", " ", "layout", " ", "issues">>,
     <<"no", " ", "visual", " ", "issues">>,
     <<"no", " ", "problems", " ", "detected">> >>

IsPageDescriptionLine(line) == startsWith(toLowerCase(trim(line)), PageDescriptionPrefix)

\* descriptionLine.replace(/^page description:\s*/i, "")
replacePageDescriptionPrefix(line) ==
  IF startsWith(toLowerCase(line), PageDescriptionPrefix)
  THEN trimStart(SubSeq(line, Len(PageDescriptionPrefix) + 1, Len(line)))
  ELSE line

extractPageDescription(content) ==
  LET lines == split(content, "\n")
      i == findIndex([n \in 1..Len(lines) |-> IsPageDescriptionLine(lines[n])])
  IN IF i # 0 THEN trim(replacePageDescriptionPrefix(lines[i]))
     ELSE PageDescriptionFallback

\* the keyword table of extractCategory, in its declaration order
CategoryKeywords ==
  << [keyword |-> "navigation", category |-> <<"Navigation">>],
     [keyword |-> "layout", category |-> <<"Layout">>],
     [keyword |-> "responsive", category |-> <<"Responsiveness">>],
     [keyword |-> "accessibility", category |-> <<"Accessibility">>],
     [keyword |-> "performance", category |-> <<"Performance">>],
     [keyword |-> "visual", category |-> <<"Visual", " ", "Design">>],
     [keyword |-> "content", category |-> <<"Content">>] >>

\* faulty variant: the keyword table is searched from its end
firstKeywordCategoryReversed(header, k) ==
  LET lower == toLowerCase(header)
      hits == {j \in k..Len(CategoryKeywords) : includes(lower, <<CategoryKeywords[j].keyword>>)}
  IN IF hits = {} THEN <<"General">>
     ELSE CategoryKeywords[CHOOSE j \in hits : \A h \in hits : j >= h].category

\* the chain of `if (header.toLowerCase().includes(...)) return ...`
firstKeywordCategory(header, k) ==
  LET lower == toLowerCase(header)
      hits == {j \in k..Len(CategoryKeywords) : includes(lower, <<CategoryKeywords[j].keyword>>)}
  IN IF hits = {} THEN <<"General">>
     ELSE CategoryKeywords[CHOOSE j \in hits : \A h \in hits : j <= h].category

extractCategory(header) ==
  LET parts == split(header, "-")
  IN IF Len(parts) > 1 THEN trim(parts[2])
     ELSE firstKeywordCategory(header, 1)

IssueMeta(severity, category) == [severity |-> severity, category |-> category]

updateSeverityAndCategory(line, current) ==
  LET trimmed == toLowerCase(trim(line))
  IN IF includes(trimmed, <<"critical">>) THEN IssueMeta("critical", extractCategory(line))
     ELSE IF includes(trimmed, <<"major">>) THEN IssueMeta("major", extractCategory(line))
     ELSE IF includes(trimmed, <<"minor">>) THEN IssueMeta("minor", extractCategory(line))
     ELSE current

StructuredIssue(severity, category, description) ==
  [severity |-> severity, category |-> category, description |-> description]

IsBulletStart(trimmed) == startsWith(trimmed, <<"-">>) \/ startsWith(trimmed, <<BulletMark>>)

\* trimmed.replace(/^[-<U+2022>]\s*/, "").trim()
bulletDescription(trimmed) == trim(trimStart(Tail(trimmed)))

\* processIssueLine: the issue of a line as a sequence of zero or one issue
processIssueLine(line, currentSeverity, currentCategory) ==
  LET trimmed == trim(line)
      description == bulletDescription(trimmed)
  IN IF IsBulletStart(trimmed) /\ description # <<>>
     THEN <<StructuredIssue(currentSeverity, currentCategory, description)>>
     ELSE <<>>

containsNoIssuesIndicator(content) ==
  LET lower == toLowerCase(content)
  IN \E k \in 1..Len(noIssuesIndicators) :
       includes(lower, toLowerCase(noIssuesIndicators[k]))

IsNonBlank(line) == trim(line) # <<>>

\* faulty variant: the tracking state survives from one call to the next
IssueMetaKept(previous) == previous

\* extractIssues: `const current: IssueMeta = {severity: "major", category: "General"}`,
\* whatever an earlier call left behind
IssueMetaInitial(previous) == IssueMeta("major", <<"General">>)

\* faulty variant: a header changes the severity but not the category
updateSeverityOnly(line, current) ==
  IssueMeta(updateSeverityAndCategory(line, current).severity, current.category)

\* what a header line does to the tracking state
updateCurrent(line, current) == updateSeverityAndCategory(line, current)

\* the loop of extractIssues over the non-blank lines, from line i on
RECURSIVE linePass(_, _, _, _)
linePass(lines, i, current, issues) ==
  IF i > Len(lines) THEN [issues |-> issues, current |-> current]
  ELSE IF IsPageDescriptionLine(lines[i]) THEN linePass(lines, i + 1, current, issues)
  ELSE LET updated == updateCurrent(lines[i], current)
           issue == processIssueLine(lines[i], updated.severity, updated.category)
       IN linePass(lines, i + 1, updated, issues \o issue)

\* faulty variant: the catch-all issue carries the text untrimmed
catchAllDescriptionRaw(content) == content

catchAllDescription(content) == trim(content)

contentHasText(content) == Len(trim(content)) > 0

\* extractIssues; returns the issues and the tracking state it ends with
extractIssues(content, previous) ==
  LET lines == SelectSeq(split(content, "\n"), IsNonBlank)
      pass == linePass(lines, 1, IssueMetaInitial(previous), <<>>)
  IN IF pass.issues = <<>> /\ contentHasText(content) /\ ~containsNoIssuesIndicator(content)
     THEN [issues |-> <<StructuredIssue("major", <<"General">>, catchAllDescription(content))>>,
           current |-> pass.current]
     ELSE pass

LineHasNoIssuesIndicator(line) ==
  LET lower == toLowerCase(trim(line))
  IN \E k \in 1..Len(noIssuesIndicators) :
       includes(lower, toLowerCase(noIssuesIndicators[k]))

\* findNoIssuesLine; <<>> stands for null
findNoIssuesLine(lines) ==
  LET i == findIndex([n \in 1..Len(lines) |-> LineHasNoIssuesIndicator(lines[n])])
  IN IF i # 0 THEN trim(lines[i]) ELSE <<>>

IsSummaryHeading(line) ==
  LET lower == toLowerCase(line)
  IN \/ includes(lower, <<"overall">>)
     \/ includes(lower, <<"summary">>)
     \/ includes(lower, <<"assessment">>)

IsSummaryLine(line) == trim(line) # <<>> /\ ~startsWith(line, <<"-">>)

\* lines.slice(summaryIndex + 1, summaryIndex + 5): four lines
SummaryWindow == 4

\* findSummarySection; <<>> stands for null
findSummarySection(lines) ==
  LET summaryIndex == findIndex([n \in 1..Len(lines) |-> IsSummaryHeading(lines[n])])
  IN IF summaryIndex = 0 THEN <<>>
     ELSE trim(join(SelectSeq(SubSeq(lines, summaryIndex + 1,
                                     Min(summaryIndex + SummaryWindow, Len(lines))),
                              IsSummaryLine),
                    " "))

SeverityHeaders == {"critical", "major", "minor", "issues", "recommendations", "assessment"}

isSeverityHeader(line) ==
  LET lower == toLowerCase(line)
  IN \E h \in SeverityHeaders : includes(lower, <<h>>)

IsFirstContent(line) ==
  /\ trim(line) # <<>>
  /\ ~isSeverityHeader(line)
  /\ ~startsWith(line, <<"-">>)
  /\ ~startsWith(line, <<BulletMark>>)

\* `noIssuesLine || trimmedContent`
noIssuesSummary(filteredLines, trimmedContent) ==
  LET noIssuesLine == findNoIssuesLine(filteredLines)
  IN IF noIssuesLine # <<>> THEN noIssuesLine ELSE trimmedContent

IsNotPageDescriptionLine(line) == ~IsPageDescriptionLine(line)

extractSummary(content) ==
  LET filteredLines == SelectSeq(split(content, "\n"), IsNotPageDescriptionLine)
      trimmedContent == trim(join(filteredLines, "\n"))
      summarySection == findSummarySection(filteredLines)
      firstContent == findIndex([n \in 1..Len(filteredLines) |-> IsFirstContent(filteredLines[n])])
  IN IF containsNoIssuesIndicator(trimmedContent)
     THEN noIssuesSummary(filteredLines, trimmedContent)
     ELSE IF summarySection # <<>>
     THEN summarySection
     ELSE IF firstContent # 0 /\ trim(filteredLines[firstContent]) # <<>>
     THEN trim(filteredLines[firstContent])
     ELSE SummaryFallback

NoOutput == [set |-> FALSE, pageDescription |-> <<>>, summary |-> <<>>, issues |-> <<>>]

\* parseAnalysis: the three derived fields of the structured output, and the
\* tracking state extractIssues ended with
parseAnalysis(content, previous) ==
  LET extracted == extractIssues(content, previous)
  IN [output |-> [set |-> TRUE,
                  pageDescription |-> extractPageDescription(content),
                  summary |-> extractSummary(content),
                  issues |-> extracted.issues],
      current |-> extracted.current]

\* ------------------------------------------------- the formatter's inputs

\* The lines a critique is made of.
HeaderCritical == <<"Critical", " ", "Issues", ":">>
HeaderMinor == <<"Minor", " ", "Issues", ":">>
HeaderWithCategory == <<"Critical", " ", "Issues", " ", "-", " ", "Navigation">>
HeaderTrailingDash == <<"Minor", " ", "Issues", " ", "-">>
HeaderTwoKeywords == <<"Major", " ", "accessibility", " ", "and", " ", "navigation">>
BulletA == <<"-", " ", "A">>
BulletIndented == <<" ", BulletMark, " ", "Major", " ", "overlap">>
BlankLine == <<>>
NoIssuesSentence ==
  <<"No", " ", "critical", " ", "layout", " ", "issues", " ", "found", " ", "in", " ",
    "this", " ", "screenshot", ".">>
Prose == <<"The", " ", "website", " ", "needs", " ", "attention", ".">>
OverallHeading == <<"Overall", " ", "Assessment", ":">>
PageDescriptionIndented ==
  <<" ", "PAGE", " ", "DESCRIPTION", ":", " ", "A", " ", "minor", " ", "shop">>
PageDescriptionClean == <<"Page", " ", "description", ":", " ", "No", " ", "issues", " ", "found">>

Lines ==
  {HeaderCritical, HeaderMinor, HeaderWithCategory, HeaderTrailingDash, HeaderTwoKeywords,
   BulletA, BulletIndented, BlankLine, NoIssuesSentence, Prose, OverallHeading,
   PageDescriptionIndented, PageDescriptionClean}

\* result.content: up to MaxLines lines joined by line feeds
Contents == {join(ls, "\n") : ls \in UNION {[1..n -> Lines] : n \in 0..MaxLines}}

\* the content of another extraction run in between
OtherContents == {HeaderWithCategory}

\* a JsonFormatter that has formatted nothing
NotFormatted == [output |-> NoOutput, current |-> IssueMeta("major", <<"General">>)]

FormatterIdle ==
  /\ analysisContent = <<>>
  /\ formatted = NotFormatted
  /\ prevOutput = NoOutput

\* ------------------------------------------------------------- exit codes

\* enum ExitCode
ExitCode ==
  [SUCCESS |-> 0, GENERAL_ERROR |-> 1, CONFIGURATION_ERROR |-> 2, NETWORK_ERROR |-> 3,
   API_ERROR |-> 4, FILE_SYSTEM_ERROR |-> 5, INVALID_INPUT |-> 6, SCREENSHOT_ERROR |-> 7,
   TIMEOUT_ERROR |-> 8]

\* An AppError as getExitCode reads it: its type and its code ("" when the
\* object has no such property).
AppError(type, code) == [set |-> TRUE, type |-> type, code |-> code]
NoAppError == [set |-> FALSE, type |-> "", code |-> ""]

\* getExitCode: a switch on error.type
getExitCode(error) ==
  CASE error.type = "CONFIGURATION_ERROR" -> ExitCode.CONFIGURATION_ERROR
    [] error.type = "SCREENSHOT_ERROR" -> ExitCode.SCREENSHOT_ERROR
    [] error.type = "API_ERROR" -> ExitCode.API_ERROR
    [] error.type = "FILE_SYSTEM_ERROR" -> ExitCode.FILE_SYSTEM_ERROR
    [] error.type = "VALIDATION_ERROR" -> ExitCode.INVALID_INPUT
    [] error.type = "ANALYSIS_ERROR" ->
         IF error.code = "TIMEOUT" THEN ExitCode.TIMEOUT_ERROR ELSE ExitCode.GENERAL_ERROR
    [] OTHER -> ExitCode.GENERAL_ERROR

\* exitWithTimeout(exitCode, reason)
ExitCall(exitCode, reason) == [code |-> exitCode, reason |-> reason]

\* validateOptions' failure as validateAndPrepare wraps it
validationError == AppError("VALIDATION_ERROR", "INVALID_OPTION")

\* ScreenshotService.capture's failure, passed through by analyzeWebsite
captureError == AppError("SCREENSHOT_ERROR", "CAPTURE_FAILED")

\* writeOutputToFile's Err value: { message, path, code: fsError.code }, no type
FileWriteError == AppError("", "EACCES")

\* ------------------------------------------------------------- the API key

\* no key: undefined or the empty string
NoKey == <<>>

\* ~/.design-feedback/config.json: absent (ENOENT), unreadable or not JSON,
\* or a config object with or without openaiApiKey
ConfigFiles ==
  {[state |-> "missing", key |-> NoKey], [state |-> "unreadable", key |-> NoKey]}
    \cup {[state |-> "ok", key |-> k] : k \in Keys \cup {NoKey}}

\* what the user types at the prompt
Answers == {NoKey, <<" ">>} \cup Keys \cup {<<" ">> \o k \o <<" ">> : k \in Keys}

KeySources ==
  [provided : Keys \cup {NoKey}, env : Keys \cup {NoKey}, file : ConfigFiles,
   answer : Answers, saveOk : BOOLEAN]

\* the sources in the order of the README: 1 --api-key, 2 OPENAI_API_KEY,
\* 3 the config file, 4 the prompt
KeyResult(ok, key, error, consulted, saved) ==
  [ok |-> ok, key |-> key, error |-> error, consulted |-> consulted, saved |-> saved]

NoKeyResult == KeyResult(FALSE, NoKey, NoAppError, {}, NoKey)

\* loadConfig with the config file read before the environment
loadConfigFileFirst(sources) ==
  IF sources.file.state = "ok" /\ sources.file.key # NoKey
  THEN KeyResult(TRUE, sources.file.key, NoAppError, {3}, NoKey)
  ELSE IF sources.env # NoKey
  THEN KeyResult(TRUE, sources.env, NoAppError, {2, 3}, NoKey)
  ELSE KeyResult(TRUE, NoKey, NoAppError, {2, 3}, NoKey)

\* loadConfig: the environment variable, then the config file
loadConfig(sources) ==
  IF sources.env # NoKey
  THEN KeyResult(TRUE, sources.env, NoAppError, {2}, NoKey)
  ELSE IF sources.file.state = "ok"
  THEN KeyResult(TRUE, sources.file.key, NoAppError, {2, 3}, NoKey)
  ELSE IF sources.file.state = "unreadable"
  THEN KeyResult(FALSE, NoKey, AppError("CONFIGURATION_ERROR", "CONFIG_READ_ERROR"),
                 {2, 3}, NoKey)
  ELSE KeyResult(TRUE, NoKey, NoAppError, {2, 3}, NoKey)

\* promptForApiKey: resolve(apiKey.trim())
promptForApiKey(sources) == trim(sources.answer)

\* saveConfig({ ...config, openaiApiKey: apiKey })
saveConfig(sources, key) ==
  IF sources.saveOk
  THEN KeyResult(TRUE, key, NoAppError, {}, key)
  ELSE KeyResult(FALSE, NoKey, AppError("CONFIGURATION_ERROR", "CONFIG_READ_ERROR"),
                 {}, NoKey)

\* ensureApiKey storing the key it was given
ensureApiKeySavingProvided(sources) ==
  IF sources.provided # NoKey
  THEN [saveConfig(sources, sources.provided) EXCEPT !.consulted = {1}]
  ELSE [loadConfig(sources) EXCEPT !.consulted = {1} \cup @]

\* ensureApiKey(providedKey)
ensureApiKey(sources) ==
  IF sources.provided # NoKey
  THEN KeyResult(TRUE, sources.provided, NoAppError, {1}, NoKey)
  ELSE LET configResult == loadConfig(sources)
           seen == {1} \cup configResult.consulted
       IN IF ~configResult.ok
          THEN [configResult EXCEPT !.consulted = seen]
          ELSE IF configResult.key # NoKey
          THEN [configResult EXCEPT !.consulted = seen]
          ELSE LET entered == promptForApiKey(sources)
               IN IF entered = NoKey
                  THEN KeyResult(FALSE, NoKey,
                                 AppError("CONFIGURATION_ERROR", "MISSING_API_KEY"),
                                 seen \cup {4}, NoKey)
                  ELSE [saveConfig(sources, entered) EXCEPT !.consulted = seen \cup {4}]

CliIdle ==
  /\ cliError = NoAppError
  /\ exitCalls = <<>>
  /\ keySources = [provided |-> NoKey, env |-> NoKey,
                   file |-> [state |-> "missing", key |-> NoKey],
                   answer |-> NoKey, saveOk |-> TRUE]
  /\ keyResult = NoKeyResult

\* ---------------------------------------------------- the website analysis

\* validateQuality's default; createScreenshotOptions' quality
DefaultQuality == 90
\* validateWaitTime's default: no wait
NoWait == 0

\* no --wait-for, no --output
Absent == ""

\* the options of the command line that concern the capture, as commander
\* hands them over (fullPage is false only with --no-full-page)
CaptureCliOptions ==
  [wait : {NoWait, 5}, waitFor : {Absent, "#main"},
   quality : {DefaultQuality, 50}, fullPage : BOOLEAN,
   output : {Absent, "shot.png"}]

\* validateOptions: the part of ValidatedOptions that concerns the capture
validateOptions(options) ==
  [output |-> options.output, wait |-> options.wait, waitFor |-> options.waitFor,
   fullPage |-> (options.fullPage # FALSE), quality |-> options.quality]

\* runAnalysis: the AnalysisOptions built from the validated options
analysisOptionsOf(options) ==
  [outputPath |-> options.output, fullPage |-> (options.fullPage # FALSE)]

\* `/tmp/design-feedback-${Date.now()}.jpg`
TempPath == "/tmp/design-feedback.jpg"

NoScreenshotOptions ==
  [set |-> FALSE, outputPath |-> Absent, waitTime |-> NoWait, waitFor |-> Absent,
   quality |-> DefaultQuality, fullPage |-> FALSE]

\* createScreenshotOptions: waitTime and waitFor are not set, quality and
\* fullPage are literals
createScreenshotOptions(options) ==
  [set |-> TRUE,
   outputPath |-> IF options.outputPath # Absent THEN options.outputPath ELSE TempPath,
   waitTime |-> NoWait, waitFor |-> Absent,
   quality |-> DefaultQuality, fullPage |-> FALSE]

\* const isTemporary = !options.outputPath
isTemporary(options) == options.outputPath = Absent

\* What ScreenshotService.capture can do: succeed; fail in the subprocess
\* before or after it wrote the file; find no file; fail to read the file.
CaptureOutcomes == {"ok", "exec failed", "exec failed after write", "not created", "read failed"}

WebsiteResult(tag, type, code, screenshotPath) ==
  [tag |-> tag, type |-> type, code |-> code, screenshotPath |-> screenshotPath]

NoWebsiteResult == WebsiteResult("none", "", "", Absent)

\* capture's Err value
captureFailure(outcome) ==
  WebsiteResult("Err", "SCREENSHOT_ERROR",
                IF outcome = "read failed" THEN "READ_ERROR" ELSE "CAPTURE_FAILED", Absent)

\* createEnrichedResult: { ...analysis, analysisTime, screenshotPath, url }
createEnrichedResult(screenshotPath) == WebsiteResult("Ok", "", "", screenshotPath)

\* no timer set, no remote call issued
RaceIdle ==
  /\ now = 0
  /\ timers = {}
  /\ inFlight = {}
  /\ late = {}

\* the process as it ends: by process.exit(code) in the failsafe timer of
\* exitWithTimeout, or by itself when the event loop has drained
ProcessExit(by, code) == [exited |-> TRUE, by |-> by, code |-> code]

\* nothing printed, the process running
ProcessIdle ==
  /\ stdout = <<>>
  /\ processExit = [exited |-> FALSE, by |-> "", code |-> ExitCode.SUCCESS]

SiteIdle ==
  /\ validatedOptions = validateOptions([wait |-> NoWait, waitFor |-> Absent,
                                         quality |-> DefaultQuality, fullPage |-> TRUE,
                                         output |-> Absent])
  /\ screenshotOptions = NoScreenshotOptions
  /\ files = {}
  /\ websiteResult = NoWebsiteResult
  /\ cleanup = "none"

\* ---------------------------------------------------------------- actions

\* In a replayed invocation the environment repeats what the previous
\* invocation observed at the same step; otherwise it is free.
AllowedNext(kind, all) ==
  LET i == Len(events) + 1
  IN IF prev.set /\ i <= Len(prev.events) /\ prev.events[i].kind = kind
     THEN {prev.events[i].resp}
     ELSE all

Init ==
  /\ pc = "cli"
  /\ verbose \in BOOLEAN
  /\ cliKeyGiven \in BOOLEAN
  /\ apiKey \in Keys
  /\ attempt = 0
  /\ lastError = NoError
  /\ pending = "none"
  /\ events = <<>>
  /\ result = NoResult
  /\ logs = {}
  /\ invocation = 1
  /\ prev = NoPrev
  /\ FormatterIdle
  /\ CliIdle
  /\ SiteIdle
  /\ RaceIdle
  /\ ProcessIdle

\* the CLI action's start: configureLogger, then the start-up record
CliAction ==
  /\ pc = "cli"
  /\ logs' = logs \cup
       debugObject("Starting design feedback CLI",
                   <<Prop("url", <<"url">>), Prop("options", JSONstringify(CliOptions))>>)
  /\ pc' = "prepare"
  /\ UNCHANGED <<verbose, cliKeyGiven, apiKey, attempt, lastError, pending, events,
                 result, invocation, prev,
                 analysisContent, formatted, prevOutput, cliError, exitCalls,
                 keySources, keyResult>>
  /\ UNCHANGED <<siteVars, raceVars>>
  /\ UNCHANGED procVars

\* validateAndPrepare: option validation, then ensureApiKey
ValidateAndPrepare ==
  /\ pc = "prepare"
  /\ \E valid \in BOOLEAN, sources \in KeySources :
       /\ sources.provided = (IF cliKeyGiven THEN apiKey ELSE NoKey)
       /\ LET apiKeyResult == ensureApiKey(sources)
          IN IF ~valid
             THEN /\ logs' = logs \cup pinoLog("error", "Validation failed", <<>>)
                  /\ cliError' = validationError
                  /\ exitCalls' =
                       Append(exitCalls, ExitCall(getExitCode(validationError), "validation error"))
                  /\ pc' = "done"
             ELSE IF apiKeyResult.ok
             THEN /\ apiKeyResult.key = apiKey
                  /\ logs' = logs \cup pinoLog("info", "Analyzing website", <<>>)
                  /\ UNCHANGED <<cliError, exitCalls>>
                  /\ pc' = "website"
             ELSE /\ logs' = logs \cup pinoLog("info", "Analyzing website", <<>>)
                                  \cup pinoLog("error", "API key error", <<>>)
                  /\ cliError' = apiKeyResult.error
                  /\ exitCalls' =
                       Append(exitCalls, ExitCall(getExitCode(apiKeyResult.error), "API key error"))
                  /\ pc' = "done"
  /\ UNCHANGED <<verbose, cliKeyGiven, apiKey, attempt, lastError, pending, events,
                 result, invocation, prev,
                 analysisContent, formatted, prevOutput, keySources, keyResult>>
  /\ UNCHANGED <<siteVars, raceVars>>
  /\ UNCHANGED procVars

\* AnalysisService.analyzeWebsite up to the call of analyzeScreenshot
AnalyzeWebsite ==
  /\ pc = "website"
  /\ \E captured \in BOOLEAN :
       /\ logs' = logs
            \cup pinoLog("info", "Starting website analysis", <<Prop("viewport", <<"desktop">>)>>)
            \cup pinoLog("debug", "Analysis options", KeyedOptions)
            \cup (IF captured THEN {} ELSE pinoLog("error", "Screenshot capture failed", <<>>))
       /\ pc' = IF captured THEN "vision" ELSE "done"
       /\ cliError' = IF captured THEN cliError ELSE captureError
       /\ exitCalls' =
            IF captured THEN exitCalls
            ELSE Append(exitCalls, ExitCall(getExitCode(captureError), "analysis error"))
  /\ UNCHANGED <<verbose, cliKeyGiven, apiKey, attempt, lastError, pending, events,
                 result, invocation, prev,
                 analysisContent, formatted, prevOutput, keySources, keyResult>>
  /\ UNCHANGED <<siteVars, raceVars>>
  /\ UNCHANGED procVars

\* VisionService.analyzeScreenshot up to the first request of callOpenAI
AnalyzeScreenshot ==
  /\ pc = "vision"
  /\ \E outcome \in AllowedNext("read", {"ok", "fail"}) :
       /\ events' = Append(events, ReadEvent(outcome))
       /\ IF ReadFailed(outcome)
          THEN /\ result' = imageToBase64Error
               /\ pc' = "done"
               /\ logs' = logs
                    \cup pinoLog("info", "Starting vision analysis", <<Prop("viewport", <<"desktop">>)>>)
                    \cup pinoLog("debug", "Vision options", KeyedOptions)
                    \cup pinoLog("error", "Failed to convert image to base64", <<>>)
          ELSE /\ result' = NoResult
               /\ pc' = "issue"
               /\ logs' = logs
                    \cup pinoLog("info", "Starting vision analysis", <<Prop("viewport", <<"desktop">>)>>)
                    \cup pinoLog("debug", "Vision options", KeyedOptions)
                    \cup logApiCallStart
  /\ attempt' = 0
  /\ lastError' = NoError
  /\ UNCHANGED <<verbose, cliKeyGiven, apiKey, pending, invocation, prev,
                 analysisContent, formatted, prevOutput, cliError, exitCalls,
                 keySources, keyResult>>
  /\ UNCHANGED <<siteVars, raceVars>>
  /\ UNCHANGED procVars

\* attemptApiRequest up to its await: the remote call is issued and raced
\* against the timeout promise
IssueRequest ==
  /\ pc = "issue"
  /\ \E resp \in AllowedNext("call", Responses) :
       /\ pending' = resp
       /\ events' = Append(events, CallEvent(resp))
  /\ timers' = timers \cup timeoutTimer(Len(Calls) + 1, now)
  /\ inFlight' = inFlight \cup {Len(Calls) + 1}
  /\ pc' = "race"
  /\ UNCHANGED <<verbose, cliKeyGiven, apiKey, attempt, lastError, result, logs,
                 invocation, prev,
                 analysisContent, formatted, prevOutput, cliError, exitCalls,
                 keySources, keyResult>>
  /\ UNCHANGED <<siteVars, now, late>>
  /\ UNCHANGED procVars

\* the race settles; the rest of attemptApiRequest and of the loop body
Settle ==
  /\ pc = "race"
  /\ RaceSettles(pending)
  /\ LET r == attemptApiRequest(pending)
         e == SaveError(lastError, r.err)
     IN IF r.ok
        THEN /\ result' = r.val
             /\ pc' = "done"
             /\ UNCHANGED <<lastError, attempt, logs>>
        ELSE /\ lastError' = e
             /\ IF shouldNotRetry(e)
                THEN /\ result' = handleError(e)
                     /\ pc' = "done"
                     /\ attempt' = attempt
                     /\ logs' = logs \cup pinoLog("warn", "OpenAI request failed", <<>>)
                ELSE IF attempt + 1 <= maxRetries
                THEN /\ result' = result
                     /\ pc' = "backoff"
                     /\ attempt' = attempt + 1
                     /\ logs' = logs \cup pinoLog("warn", "OpenAI request failed", <<>>)
                ELSE /\ result' = handleError(e)
                     /\ pc' = "done"
                     /\ attempt' = attempt + 1
                     /\ logs' = logs \cup pinoLog("warn", "OpenAI request failed", <<>>)
                                     \cup pinoLog("error", "All retry attempts exhausted", <<>>)
  /\ pending' = "none"
  /\ now' = RaceSettledAt(pending, Len(Calls), timers, now)
  /\ timers' = PendingAt(timers, RaceSettledAt(pending, Len(Calls), timers, now))
  /\ inFlight' = IF pending = "Hang" THEN inFlight ELSE inFlight \ {Len(Calls)}
  /\ UNCHANGED <<verbose, cliKeyGiven, apiKey, events, invocation, prev,
                 analysisContent, formatted, prevOutput, cliError, exitCalls,
                 keySources, keyResult>>
  /\ UNCHANGED <<siteVars, late>>
  /\ UNCHANGED procVars

\* handleRetryBackoff: the wait before a retry
HandleRetryBackoff ==
  /\ pc = "backoff"
  /\ events' = Append(events, DelayEvent(BackoffDelay(attempt)))
  /\ logs' = logs \cup pinoLog("info", "Retrying request", <<>>)
  /\ pc' = "issue"
  /\ now' = now + BackoffDelay(attempt)
  /\ timers' = PendingAt(timers, now + BackoffDelay(attempt))
  /\ UNCHANGED <<verbose, cliKeyGiven, apiKey, attempt, lastError, pending, result,
                 invocation, prev,
                 analysisContent, formatted, prevOutput, cliError, exitCalls,
                 keySources, keyResult>>
  /\ UNCHANGED <<siteVars, inFlight, late>>
  /\ UNCHANGED procVars

\* analyzeScreenshot is invoked again, with another key, against a remote
\* that answers as before
Reinvoke ==
  /\ pc = "done"
  /\ result.tag # "none"
  /\ ~prev.set
  /\ \E k \in Keys \ {apiKey} : apiKey' = k
  /\ prev' = [set |-> TRUE, key |-> apiKey, events |-> events, result |-> result]
  /\ events' = <<>>
  /\ result' = NoResult
  /\ attempt' = 0
  /\ lastError' = NoError
  /\ invocation' = invocation + 1
  /\ pc' = "vision"
  /\ now' = 0
  /\ timers' = {}
  /\ inFlight' = {}
  /\ late' = {}
  /\ UNCHANGED <<verbose, cliKeyGiven, pending, logs,
                 analysisContent, formatted, prevOutput, cliError, exitCalls,
                 keySources, keyResult>>
  /\ UNCHANGED siteVars
  /\ UNCHANGED procVars

\* the CLI action once analyzeScreenshot has returned: runAnalysis's error
\* branch, or formatAndOutputResults (saveToFile with --save) and the exit
\* that ends the action
CompleteCliAction ==
  /\ pc = "done"
  /\ result.tag # "none"
  /\ exitCalls = <<>>
  /\ IF result.tag = "Err"
     THEN /\ cliError' = AppError(result.type, result.code)
          /\ exitCalls' =
               Append(exitCalls,
                      ExitCall(getExitCode(AppError(result.type, result.code)), "analysis error"))
          /\ stdout' = stdout
     ELSE \E save \in {"no", "written", "failed"} :
            /\ stdout' = Append(stdout, IF save = "no" THEN "content" ELSE "Analysis saved to")
            /\ IF save = "failed"
               THEN /\ cliError' = FileWriteError
                    /\ exitCalls' =
                         exitCalls \o <<ExitCall(getExitCode(FileWriteError), "file save error"),
                                        ExitCall(ExitCode.SUCCESS, "successful completion")>>
               ELSE /\ cliError' = cliError
                    /\ exitCalls' =
                         Append(exitCalls, ExitCall(ExitCode.SUCCESS, "successful completion"))
  /\ UNCHANGED <<pc, verbose, cliKeyGiven, apiKey, attempt, lastError, pending, events,
                 result, logs, invocation, prev,
                 analysisContent, formatted, prevOutput, keySources, keyResult>>
  /\ UNCHANGED <<siteVars, raceVars, processExit>>

Next ==
  \/ CliAction
  \/ ValidateAndPrepare
  \/ AnalyzeWebsite
  \/ AnalyzeScreenshot
  \/ IssueRequest
  \/ Settle
  \/ HandleRetryBackoff
  \/ CompleteCliAction

\* VisionService used on its own: two invocations, the second a replay
NextReplay ==
  \/ AnalyzeScreenshot
  \/ IssueRequest
  \/ Settle
  \/ HandleRetryBackoff
  \/ Reinvoke

InitReplay ==
  /\ pc = "vision"
  /\ verbose = FALSE
  /\ cliKeyGiven = FALSE
  /\ apiKey \in Keys
  /\ attempt = 0
  /\ lastError = NoError
  /\ pending = "none"
  /\ events = <<>>
  /\ result = NoResult
  /\ logs = {}
  /\ invocation = 1
  /\ prev = NoPrev
  /\ FormatterIdle
  /\ CliIdle
  /\ SiteIdle
  /\ RaceIdle
  /\ ProcessIdle

Spec == Init /\ [][Next]_vars

\* Node's event loop runs every ready continuation and fires every due timer.
LiveSpec == Init /\ [][Next]_vars /\ WF_vars(Next)

SpecReplay == InitReplay /\ [][NextReplay]_vars

\* ------------------------------------------------------ the process ends

\* After exitWithTimeout was called the process ends: either the event loop
\* drains (nothing holds it open, or closeActiveHandles released what did)
\* and the process ends with process.exitCode, which nothing sets; or the loop
\* is still held open after 500 ms (by a pending timer of the vision service
\* or a remote call in flight) and the earliest failsafe timer calls
\* process.exit with its own code.
EndProcess ==
  /\ pc = "done"
  /\ exitCalls # <<>>
  /\ ~processExit.exited
  /\ \/ processExit' = ProcessExit("drained", ExitCode.SUCCESS)
     \/ /\ (timers # {} \/ inFlight # {})
        /\ processExit' = ProcessExit("failsafe", exitCalls[1].code)
  /\ UNCHANGED <<pc, verbose, cliKeyGiven, apiKey, attempt, lastError, pending, events,
                 result, logs, invocation, prev, stdout>>
  /\ UNCHANGED <<fmtVars, exitVars, keyVars, siteVars, raceVars>>

\* the CLI run up to the end of the process
NextCli ==
  \/ CliAction
  \/ ValidateAndPrepare
  \/ AnalyzeWebsite
  \/ AnalyzeScreenshot
  \/ IssueRequest
  \/ Settle
  \/ HandleRetryBackoff
  \/ CompleteCliAction
  \/ EndProcess

SpecCli == Init /\ [][NextCli]_vars

\* ------------------------------------- the remote calls that outlive a timeout

\* The remote call of an attempt that timed out completes: its
\* completionPromise settles, and the race it belonged to has settled before.
LateResponse ==
  /\ pc \in {"issue", "race", "backoff", "done"}
  /\ \E k \in inFlight, lateResp \in {"OkContent", "Api401", "FetchError"} :
       /\ (pc = "race" => k # Len(Calls))
       /\ inFlight' = inFlight \ {k}
       /\ late' = late \cup {k}
       /\ pending' = afterLateResponse(pending, lateResp)
  /\ UNCHANGED <<pc, verbose, cliKeyGiven, apiKey, attempt, lastError, events,
                 result, logs, invocation, prev, now, timers>>
  /\ UNCHANGED <<fmtVars, exitVars, keyVars, siteVars>>
  /\ UNCHANGED procVars

\* VisionService with the remote calls it leaves behind
NextRace ==
  \/ AnalyzeScreenshot
  \/ IssueRequest
  \/ Settle
  \/ HandleRetryBackoff
  \/ LateResponse

SpecRace == InitReplay /\ [][NextRace]_vars

\* ---------------------------------------------- the formatter on its own

\* formatter.format(result) on a fresh JsonFormatter
Format ==
  /\ pc = "format"
  /\ ~structuredOutput.set
  /\ formatted' = parseAnalysis(analysisContent, lastMeta)
  /\ UNCHANGED <<analysisContent, prevOutput>>
  /\ UNCHANGED cliVars
  /\ UNCHANGED <<exitVars, keyVars, siteVars, raceVars>>
  /\ UNCHANGED procVars

\* the same formatter formats some other result
FormatOther ==
  /\ pc = "format"
  /\ structuredOutput.set
  /\ ~prevOutput.set
  /\ \E other \in OtherContents :
       /\ formatted' = [formatted EXCEPT !.current = extractIssues(other, lastMeta).current]
       /\ formatted' # formatted
  /\ UNCHANGED <<analysisContent, prevOutput>>
  /\ UNCHANGED cliVars
  /\ UNCHANGED <<exitVars, keyVars, siteVars, raceVars>>
  /\ UNCHANGED procVars

\* the same formatter formats the first result again
FormatAgain ==
  /\ pc = "format"
  /\ structuredOutput.set
  /\ ~prevOutput.set
  /\ prevOutput' = structuredOutput
  /\ formatted' = parseAnalysis(analysisContent, lastMeta)
  /\ UNCHANGED analysisContent
  /\ UNCHANGED cliVars
  /\ UNCHANGED <<exitVars, keyVars, siteVars, raceVars>>
  /\ UNCHANGED procVars

\* one format call per result
NextFormat == Format

\* one formatter used for several calls
NextReformat ==
  \/ Format
  \/ FormatOther
  \/ FormatAgain

InitFormat ==
  /\ pc = "format"
  /\ verbose = FALSE
  /\ cliKeyGiven = FALSE
  /\ apiKey = KeyPrefix
  /\ attempt = 0
  /\ lastError = NoError
  /\ pending = "none"
  /\ events = <<>>
  /\ result = NoResult
  /\ logs = {}
  /\ invocation = 1
  /\ prev = NoPrev
  /\ analysisContent \in Contents
  /\ formatted = NotFormatted
  /\ prevOutput = NoOutput
  /\ CliIdle
  /\ SiteIdle
  /\ RaceIdle
  /\ ProcessIdle

SpecFormat == InitFormat /\ [][NextFormat]_vars

SpecReformat == InitFormat /\ [][NextReformat]_vars

\* ------------------------------------------------- the API key on its own

\* ensureApiKey(options.apiKey) in some environment
EnsureApiKey ==
  /\ pc = "key"
  /\ keyResult' = ensureApiKey(keySources)
  /\ pc' = "resolved"
  /\ UNCHANGED <<verbose, cliKeyGiven, apiKey, attempt, lastError, pending, events,
                 result, logs, invocation, prev, keySources>>
  /\ UNCHANGED <<fmtVars, exitVars, siteVars, raceVars>>
  /\ UNCHANGED procVars

NextKey == EnsureApiKey

InitKey ==
  /\ pc = "key"
  /\ verbose = FALSE
  /\ cliKeyGiven = FALSE
  /\ apiKey = KeyPrefix
  /\ attempt = 0
  /\ lastError = NoError
  /\ pending = "none"
  /\ events = <<>>
  /\ result = NoResult
  /\ logs = {}
  /\ invocation = 1
  /\ prev = NoPrev
  /\ FormatterIdle
  /\ cliError = NoAppError
  /\ exitCalls = <<>>
  /\ keySources \in KeySources
  /\ keyResult = NoKeyResult
  /\ SiteIdle
  /\ RaceIdle
  /\ ProcessIdle

SpecKey == InitKey /\ [][NextKey]_vars

\* ------------------------------------------- analyzeWebsite on its own

\* runAnalysis and analyzeWebsite up to the return of ScreenshotService.capture
CaptureScreenshot ==
  /\ pc = "site"
  /\ LET options == analysisOptionsOf(validatedOptions)
     IN /\ screenshotOptions' = createScreenshotOptions(options)
        /\ \E outcome \in CaptureOutcomes :
             /\ files' = IF outcome \in {"ok", "exec failed after write", "read failed"}
                         THEN files \cup {createScreenshotOptions(options).outputPath}
                         ELSE files
             /\ IF outcome = "ok"
                THEN /\ websiteResult' = websiteResult
                     /\ pc' = "analyzing"
                ELSE /\ websiteResult' = captureFailure(outcome)
                     /\ pc' = "returned"
  /\ UNCHANGED <<verbose, cliKeyGiven, apiKey, attempt, lastError, pending, events,
                 result, logs, invocation, prev, validatedOptions, cleanup>>
  /\ UNCHANGED <<fmtVars, exitVars, keyVars, raceVars>>
  /\ UNCHANGED procVars

\* analyzeWebsite's try block: analyzeScreenshot returns
AnalyzeImage ==
  /\ pc = "analyzing"
  /\ \E analysisOk \in BOOLEAN :
       websiteResult' = IF analysisOk
                        THEN createEnrichedResult(screenshotOptions.outputPath)
                        ELSE WebsiteResult("Err", "API_ERROR", "API_REQUEST_FAILED", Absent)
  /\ pc' = "finally"
  /\ UNCHANGED <<verbose, cliKeyGiven, apiKey, attempt, lastError, pending, events,
                 result, logs, invocation, prev, validatedOptions, screenshotOptions, files,
                 cleanup>>
  /\ UNCHANGED <<fmtVars, exitVars, keyVars, raceVars>>
  /\ UNCHANGED procVars

\* analyzeWebsite's finally block (cleanupTemporaryFile), then the return
CleanupAndReturn ==
  /\ pc = "finally"
  /\ IF isTemporary(analysisOptionsOf(validatedOptions))
     THEN \E removed \in BOOLEAN :
            /\ files' = IF removed THEN files \ {screenshotOptions.outputPath} ELSE files
            /\ cleanup' = IF removed THEN "removed" ELSE "failed"
     ELSE /\ files' = files
          /\ cleanup' = cleanup
  /\ pc' = "returned"
  /\ UNCHANGED <<verbose, cliKeyGiven, apiKey, attempt, lastError, pending, events,
                 result, logs, invocation, prev, validatedOptions, screenshotOptions,
                 websiteResult>>
  /\ UNCHANGED <<fmtVars, exitVars, keyVars, raceVars>>
  /\ UNCHANGED procVars

NextWebsite ==
  \/ CaptureScreenshot
  \/ AnalyzeImage
  \/ CleanupAndReturn

InitWebsite ==
  /\ pc = "site"
  /\ verbose = FALSE
  /\ cliKeyGiven = FALSE
  /\ apiKey = KeyPrefix
  /\ attempt = 0
  /\ lastError = NoError
  /\ pending = "none"
  /\ events = <<>>
  /\ result = NoResult
  /\ logs = {}
  /\ invocation = 1
  /\ prev = NoPrev
  /\ FormatterIdle
  /\ CliIdle
  /\ \E options \in CaptureCliOptions : validatedOptions = validateOptions(options)
  /\ screenshotOptions = NoScreenshotOptions
  /\ files = {}
  /\ websiteResult = NoWebsiteResult
  /\ cleanup = "none"
  /\ RaceIdle
  /\ ProcessIdle

SpecWebsite == InitWebsite /\ [][NextWebsite]_vars


\* ----------------------------------------------------------------- claims

Is5xx(resp) == resp \in {"Api500", "Api503"}
LastCall == Calls[Len(Calls)].resp

\* Delays happen only between two remote calls: never before the first call,
\* never after the last.
DelaysOnlyBetweenCalls ==
  \A i \in 1..Len(events) :
    IsDelay(events[i]) =>
      /\ i > 1 /\ IsCall(events[i - 1])
      /\ (i < Len(events) => IsCall(events[i + 1]))
      /\ (i = Len(events) => pc = "issue")

\* C1: for every N in 0..3, when the first N remote calls fail with a 5xx API
\* error and call N+1 returns non-empty content, the invocation makes exactly
\* N+1 remote calls and returns Success; no delay precedes the first call and
\* the delay before the k-th retry is 1000 * 2^(k-1) ms.
C1_BackoffThenSuccess ==
  \A N \in 0..3 :
    ( /\ Len(Calls) >= N + 1
      /\ \A k \in 1..N : Is5xx(Calls[k].resp)
      /\ Calls[N + 1].resp = "OkContent" )
    => /\ Len(Calls) = N + 1
       /\ pc \in {"race", "done"}
       /\ (pc = "done" => result.tag = "Ok")
       /\ Len(Delays) = N
       /\ \A k \in 1..N : Delays[k].ms = 1000 * 2^(k - 1)
       /\ DelaysOnlyBetweenCalls

C1_Witness ==
  /\ pc = "done"
  /\ result.tag = "Ok"
  /\ Len(Calls) = 4
  /\ \A k \in 1..3 : Is5xx(Calls[k].resp)
  /\ Delays = <<DelayEvent(1000), DelayEvent(2000), DelayEvent(4000)>>

\* C2: a remote call that fails with an API error of status 400..499, at any
\* attempt, is the last thing the invocation does: no further remote call, no
\* further delay, and the invocation returns Failure.
C2_ClientErrorStops ==
  \A i \in 1..Len(events) :
    ( /\ IsCall(events[i])
      /\ events[i].resp \in ApiResponses
      /\ StatusOf(events[i].resp) \in 400..499 ) =>
      /\ i = Len(events)
      /\ pc \in {"race", "done"}
      /\ (pc = "done" => result.tag = "Err")
      /\ (i = 2 => Len(Calls) = 1 /\ Len(Delays) = 0)

C2_Witness ==
  /\ pc = "done"
  /\ result.tag = "Err"
  /\ Len(Calls) = 3
  /\ Calls[1].resp = "Api500"
  /\ Calls[3].resp = "Api400"

\* C3: when every remote call of an invocation fails with a 5xx, a network
\* error or a timeout, the invocation makes exactly 4 remote calls and
\* returns the Failure of the fourth call's error; there is never a fifth call.
RetryableFailures == {"Api500", "Api503", "ApiNoStatus", "FetchError", "Hang"}

C3_ExhaustedRetries ==
  /\ Len(Calls) <= 4
  /\ ( /\ pc = "done"
       /\ Len(Calls) >= 1
       /\ \A k \in 1..Len(Calls) : Calls[k].resp \in RetryableFailures )
     => /\ Len(Calls) = 4
        /\ result.tag = "Err"
        /\ result = handleError(attemptApiRequest(Calls[4].resp).err)

C3_Witness ==
  /\ pc = "done"
  /\ Len(Calls) = 4
  /\ Calls[1].resp = "Api500"
  /\ Calls[2].resp = "FetchError"
  /\ Calls[3].resp = "Hang"
  /\ Calls[4].resp = "Api503"
  /\ result.code = "SERVER_ERROR"
  /\ result.status = 503

HasPart(text, part) == \E i \in 1..Len(text) : text[i] = part

\* C4: a failed attempt is followed by another attempt, while budget remains,
\* if and only if its kind is RateLimited (429), RemoteServerError (5xx),
\* NetworkError or Timeout (stated for the kinds the classification table
\* gives a retryable flag); and 429, 429, 200 yields Success after exactly 3
\* calls with delays of 1000 ms and 2000 ms.
TableRetryable == {"Api429", "Api500", "Api503", "ApiNoStatus", "FetchError", "Hang"}
TableNotRetryable == {"Api401", "Api400", "Api415", "OkEmpty", "OkNoChoices"}

C4_RetryTable ==
  /\ \A k \in 1..Len(Calls) :
       ( /\ Calls[k].resp \in TableRetryable \cup TableNotRetryable
         /\ k < 4
         /\ (k < Len(Calls) \/ pc = "done") )
       => ((k < Len(Calls)) <=> (Calls[k].resp \in TableRetryable))
  /\ ( /\ pc = "done"
       /\ Len(Calls) >= 1
       /\ Calls[1].resp = "Api429"
       /\ (Len(Calls) >= 2 => Calls[2].resp = "Api429")
       /\ (Len(Calls) >= 3 => Calls[3].resp = "OkContent") )
     => /\ result.tag = "Ok"
        /\ Len(Calls) = 3
        /\ Delays = <<DelayEvent(1000), DelayEvent(2000)>>

\* C5: an attempt whose remote call does not complete within the timeout
\* fails as a timeout, and when every attempt of an invocation times out the
\* returned Failure has type NETWORK_ERROR, code TIMEOUT and a message
\* containing "Request timeout".
C5_TimeoutClassified ==
  /\ (pc = "backoff" /\ LastCall = "Hang") => lastError.message = "Request timeout"
  /\ ( /\ pc = "done"
       /\ Len(Calls) >= 1
       /\ \A k \in 1..Len(Calls) : Calls[k].resp = "Hang" )
     => /\ result.tag = "Err"
        /\ result.type = "NETWORK_ERROR"
        /\ result.code = "TIMEOUT"
        /\ HasPart(result.message, "Request timeout")

\* C6: every value caught from a remote call is classified into one Failure;
\* for an API error the code follows from the status alone (429 RATE_LIMIT,
\* 401 INVALID_KEY, 400 BAD_REQUEST, 415 INVALID_IMAGE, >= 500 SERVER_ERROR);
\* everything else gets a fallback kind.
CodeTable(st) ==
  CASE st = 429 -> "RATE_LIMIT"
    [] st = 401 -> "INVALID_KEY"
    [] st = 400 -> "BAD_REQUEST"
    [] st = 415 -> "INVALID_IMAGE"
    [] st >= 500 -> "SERVER_ERROR"
    [] OTHER -> "NETWORK_ERROR"

C7_AlwaysReturns ==
  /\ []((pc = "done" /\ Len(events) > 0) => result.tag \in {"Ok", "Err"})
  /\ []((pc # "done") => result.tag = "none")
  /\ ((pc = "vision") ~> (pc = "done" /\ result.tag \in {"Ok", "Err"}))

C7_Witness ==
  /\ pc = "done"
  /\ Len(Calls) = 4
  /\ \A k \in 1..4 : Calls[k].resp = "Hang"
  /\ result.tag = "Err"

\* C8: when reading the image fails, analyzeScreenshot returns a Failure of
\* type FILE_SYSTEM_ERROR, code READ_ERROR, whose message contains "Failed to
\* read image file", with no remote call and no delay; the image is read at
\* most once per invocation.
C8_ReadFailure ==
  /\ Len(Reads) <= 1
  /\ (Len(Reads) = 1 /\ Reads[1].resp = "fail")
     => /\ pc = "done"
        /\ result.tag = "Err"
        /\ result.type = "FILE_SYSTEM_ERROR"
        /\ result.code = "READ_ERROR"
        /\ HasPart(result.message, "Failed to read image file")
        /\ Len(Calls) = 0
        /\ Len(Delays) = 0

C8_Witness ==
  /\ pc = "done"
  /\ events = <<ReadEvent("fail")>>
  /\ result.type = "FILE_SYSTEM_ERROR"

\* C9: two invocations whose keys agree on the first 7 characters and differ
\* after them, and that observe the same image read and the same remote
\* responses, return Failures equal in type, code, message, status and details.
SamePrefix(k1, k2) == Slice(k1, 7) = Slice(k2, 7)

C9_FailureIndependentOfKey ==
  ( /\ pc = "done"
    /\ prev.set
    /\ prev.key # apiKey
    /\ SamePrefix(prev.key, apiKey)
    /\ events = prev.events
    /\ prev.result.tag = "Err" )
  => /\ result.tag = "Err"
     /\ result.type = prev.result.type
     /\ result.code = prev.result.code
     /\ result.message = prev.result.message
     /\ result.status = prev.result.status
     /\ result.details = prev.result.details

C9_Witness ==
  /\ pc = "done"
  /\ prev.set
  /\ prev.key # apiKey
  /\ SamePrefix(prev.key, apiKey)
  /\ events = prev.events
  /\ Len(Calls) = 2
  /\ LastCall = "Api401"
  /\ result.code = "INVALID_KEY"
  /\ prev.result.code = "INVALID_KEY"

\* C10: no log record written during a CLI run contains the full API key.
C10_NoFullKeyLogged ==
  \A r \in logs : ~Contains(r.text, apiKey)

\* ------------------------------------------------- claims: the formatter

General == <<"General">>
issues == structuredOutput.issues
ContentLines == split(analysisContent, "\n")

IsBulletLine(line) ==
  LET trimmed == trim(line)
  IN /\ trimmed # <<>>
     /\ trimmed[1] \in {"-", BulletMark}
     /\ trim(Tail(trimmed)) # <<>>

TextAfterMarker(line) == trim(Tail(trim(line)))

\* a header line: a line, other than a page-description line, with a severity word
IsHeaderLine(line) ==
  /\ ~IsPageDescriptionLine(line)
  /\ \E w \in {"critical", "major", "minor"} : includes(toLowerCase(line), <<w>>)

HeaderSeverity(line) ==
  IF includes(toLowerCase(line), <<"critical">>) THEN "critical"
  ELSE IF includes(toLowerCase(line), <<"major">>) THEN "major"
  ELSE "minor"

BulletLines == {i \in 1..Len(ContentLines) : IsBulletLine(ContentLines[i])}
HeadersUpTo(n) == {j \in 1..n : IsHeaderLine(ContentLines[j])}
Latest(S) == CHOOSE j \in S : \A h \in S : h <= j

\* the entry a bullet line gets from the latest header among the first n lines
EntryUnder(n, i) ==
  IF HeadersUpTo(n) = {}
  THEN StructuredIssue("major", General, TextAfterMarker(ContentLines[i]))
  ELSE StructuredIssue(HeaderSeverity(ContentLines[Latest(HeadersUpTo(n))]),
                       extractCategory(ContentLines[Latest(HeadersUpTo(n))]),
                       TextAfterMarker(ContentLines[i]))

\* the position in `issues` of the entry of bullet line i
EntryIndex(i) == Cardinality({j \in BulletLines : j <= i})

\* C12 as stated: the issues of a text with bullet lines are one entry per
\* bullet line, in source order, each with the severity and category set by
\* the most recent header line before it, or (major, General) when no header
\* line precedes it. (A text without bullet lines gets the catch-all entry or
\* none: C13, C14.)
C12_BulletsUnderPrecedingHeader ==
  (structuredOutput.set /\ BulletLines # {}) =>
    /\ Len(issues) = Cardinality(BulletLines)
    /\ \A i \in BulletLines : issues[EntryIndex(i)] = EntryUnder(i - 1, i)

\* C12 as amended: the issues of a text with bullet lines are one entry per
\* bullet line, in source order, each with the severity and category set by
\* the most recent header line up to and including the bullet line itself (a
\* bullet line with a severity word is a header line too), or
\* (major, General) when there is none.
C12_BulletsUnderLatestHeader ==
  (structuredOutput.set /\ BulletLines # {}) =>
    /\ Len(issues) = Cardinality(BulletLines)
    /\ \A i \in BulletLines : issues[EntryIndex(i)] = EntryUnder(i, i)

\* "- A", "Minor Issues:", "- A": the default first, then the header's section
C12_Witness ==
  /\ structuredOutput.set
  /\ issues = <<StructuredIssue("major", General, <<"A">>),
                StructuredIssue("minor", General, <<"A">>)>>

\* whether text holds one of the five "no issues" phrases, whatever the case
HasNoIssuesPhrase(text) ==
  \E k \in 1..Len(noIssuesIndicators) : includes(toLowerCase(text), noIssuesIndicators[k])

CatchAll == <<StructuredIssue("major", General, trim(analysisContent))>>

\* C13 as stated: for every input on which the line pass emits no issue and
\* whose text holds none of the "no issues" phrases, issues is exactly the
\* catch-all entry: major, General, the full trimmed text.
C13_CatchAllAlways ==
  (structuredOutput.set /\ BulletLines = {} /\ ~HasNoIssuesPhrase(analysisContent)) =>
    issues = CatchAll

\* C13 as amended: for every input that is not blank, on which the line pass
\* emits no issue and whose text holds none of the "no issues" phrases,
\* issues is exactly the catch-all entry: major, General, the full trimmed
\* text.
C13_CatchAllOfText ==
  (/\ structuredOutput.set
   /\ trim(analysisContent) # <<>>
   /\ BulletLines = {}
   /\ ~HasNoIssuesPhrase(analysisContent)) =>
    issues = CatchAll

\* prose after a blank line: the description is the text without the line feed
C13_Witness ==
  /\ structuredOutput.set
  /\ BulletLines = {}
  /\ ~HasNoIssuesPhrase(analysisContent)
  /\ analysisContent # trim(analysisContent)
  /\ issues = <<StructuredIssue("major", General, Prose)>>

LinesWithPhrase == {i \in 1..Len(ContentLines) : HasNoIssuesPhrase(ContentLines[i])}
Earliest(S) == CHOOSE j \in S : \A h \in S : j <= h

\* C14: if the line pass emits no issue and the full text holds a "no issues"
\* phrase, issues is empty and summary is the first line that holds the phrase.
C14_CleanPage ==
  (structuredOutput.set /\ BulletLines = {} /\ HasNoIssuesPhrase(analysisContent)) =>
    /\ issues = <<>>
    /\ LinesWithPhrase # {}
    /\ structuredOutput.summary = trim(ContentLines[Earliest(LinesWithPhrase)])

\* C15: every issue has a severity among critical, major, minor and a
\* category that is not empty.
C15_IssuesPopulated ==
  structuredOutput.set =>
    \A k \in 1..Len(issues) :
      /\ issues[k].severity \in {"critical", "major", "minor"}
      /\ issues[k].category # <<>>

PageDescriptionLines == {i \in 1..Len(ContentLines) : IsPageDescriptionLine(ContentLines[i])}

\* the text of a line after its "page description:" prefix, trimmed
AfterPrefix(line) ==
  trim(SubSeq(trim(line), Len(PageDescriptionPrefix) + 1, Len(trim(line))))

\* C16: pageDescription is the first page-description line without its prefix,
\* trimmed, and so never begins with the prefix; the fallback string when
\* there is no such line; and page-description lines never set the running
\* severity.
C16_PageDescription ==
  structuredOutput.set =>
    /\ PageDescriptionLines = {} => structuredOutput.pageDescription = PageDescriptionFallback
    /\ PageDescriptionLines # {} =>
         /\ structuredOutput.pageDescription =
              AfterPrefix(ContentLines[Earliest(PageDescriptionLines)])
         /\ ~startsWith(toLowerCase(structuredOutput.pageDescription), PageDescriptionPrefix)
    /\ lastMeta.severity =
         IF HeadersUpTo(Len(ContentLines)) = {} THEN "major"
         ELSE HeaderSeverity(ContentLines[Latest(HeadersUpTo(Len(ContentLines)))])

\* the lines the summary is taken from: page-description lines are dropped first
SummarySourceLines == SelectSeq(ContentLines, IsNotPageDescriptionLine)

IsSummaryHeadingLine(line) ==
  \E w \in {"overall", "summary", "assessment"} : includes(toLowerCase(line), <<w>>)

IsProseLine(line) ==
  /\ trim(line) # <<>>
  /\ trim(line)[1] \notin {"-", BulletMark}

\* the non-blank, non-bullet lines after the first summary heading
ProseAfterHeading ==
  LET h == findIndex([n \in 1..Len(SummarySourceLines) |-> IsSummaryHeadingLine(SummarySourceLines[n])])
  IN IF h = 0 THEN <<>>
     ELSE SelectSeq(SubSeq(SummarySourceLines, h + 1, Len(SummarySourceLines)), IsProseLine)

\* C17: when no "no issues" phrase matches and a line holds "overall",
\* "summary" or "assessment", summary is the next up to 4 non-blank,
\* non-bullet lines after the first such line joined by single spaces; blank
\* lines do not count toward the 4 and bullet lines are never included.
C17_SummarySection ==
  (/\ structuredOutput.set
   /\ ~HasNoIssuesPhrase(join(SummarySourceLines, "\n"))
   /\ ProseAfterHeading # <<>>) =>
    structuredOutput.summary =
      trim(join(SubSeq(ProseAfterHeading, 1, Min(SummaryWindow, Len(ProseAfterHeading))), " "))

\* the text between the first "-" of a header and its next "-" (or its end)
AfterDash(header) ==
  LET rest == SubSeq(header, IndexOf(header, "-", 1) + 1, Len(header))
      next == IndexOf(rest, "-", 1)
  IN trim(IF next = 0 THEN rest ELSE SubSeq(rest, 1, next - 1))

KeywordOrder ==
  <<"navigation", "layout", "responsive", "accessibility", "performance", "visual", "content">>

KeywordsIn(header) ==
  {k \in 1..Len(KeywordOrder) : includes(toLowerCase(header), <<KeywordOrder[k]>>)}

CategoryName(keyword) ==
  CASE keyword = "navigation" -> <<"Navigation">>
    [] keyword = "layout" -> <<"Layout">>
    [] keyword = "responsive" -> <<"Responsiveness">>
    [] keyword = "accessibility" -> <<"Accessibility">>
    [] keyword = "performance" -> <<"Performance">>
    [] keyword = "visual" -> <<"Visual", " ", "Design">>
    [] keyword = "content" -> <<"Content">>

HeaderCategory(header) ==
  IF IndexOf(header, "-", 1) # 0 THEN AfterDash(header)
  ELSE IF KeywordsIn(header) # {} THEN CategoryName(KeywordOrder[Earliest(KeywordsIn(header))])
  ELSE General

FirstExit == exitCalls[1]

\* the analysis gave up after a remote call that did not settle in time
IsTimeoutFailure ==
  /\ FirstExit.reason = "analysis error"
  /\ result.tag = "Err"
  /\ Calls # <<>>
  /\ LastCall = "Hang"

\* the exit code of the kind of the failure that reached the CLI
ExitCodeOfKind ==
  CASE FirstExit.reason = "validation error" -> ExitCode.INVALID_INPUT
    [] FirstExit.reason = "API key error" -> ExitCode.CONFIGURATION_ERROR
    [] FirstExit.reason = "file save error" -> ExitCode.FILE_SYSTEM_ERROR
    [] IsTimeoutFailure -> ExitCode.TIMEOUT_ERROR
    [] cliError.type = "NETWORK_ERROR" -> ExitCode.NETWORK_ERROR
    [] cliError.type = "API_ERROR" -> ExitCode.API_ERROR
    [] cliError.type = "FILE_SYSTEM_ERROR" -> ExitCode.FILE_SYSTEM_ERROR
    [] cliError.type = "SCREENSHOT_ERROR" -> ExitCode.SCREENSHOT_ERROR
    [] cliError.type = "CONFIGURATION_ERROR" -> ExitCode.CONFIGURATION_ERROR
    [] cliError.type = "VALIDATION_ERROR" -> ExitCode.INVALID_INPUT
    [] OTHER -> ExitCode.GENERAL_ERROR

\* C19: every failure that reaches the CLI is mapped by getExitCode to the exit
\* code of its own kind: configuration 2, network 3, API 4, file system 5,
\* validation 6, screenshot 7, timeout 8, and 1 only for an uncategorised error.
C19_ExitCodeOfOwnKind ==
  cliError.set => FirstExit.code = ExitCodeOfKind

\* ---------------------------------------------------- claims: the API key

\* the key each source yields, in the order of precedence
SourceKey(i) ==
  CASE i = 1 -> keySources.provided
    [] i = 2 -> keySources.env
    [] i = 3 -> keySources.file.key
    [] OTHER -> trim(keySources.answer)

SourceRanks == 1..4

\* C20: the key used is that of the highest-precedence source that yields one
\* (command line, then OPENAI_API_KEY, then the config file, then the prompt),
\* and a source is consulted only when every higher one yielded no key.
C20_KeyPrecedence ==
  pc = "resolved" =>
    /\ keyResult.ok =>
         \E i \in SourceRanks :
           /\ keyResult.key = SourceKey(i)
           /\ SourceKey(i) # NoKey
           /\ \A h \in 1..(i - 1) : SourceKey(h) = NoKey
    /\ \A i \in keyResult.consulted : \A h \in 1..(i - 1) : SourceKey(h) = NoKey

\* the environment's key is used although the config file holds another one
C20_Witness ==
  /\ pc = "resolved"
  /\ keyResult.ok
  /\ keySources.provided = NoKey
  /\ keySources.env # NoKey
  /\ keySources.file.key # NoKey
  /\ keySources.file.key # keySources.env
  /\ keyResult.key = keySources.env

\* --------------------------------------------- claims: the config file

\* the prompt was shown
Prompted == 4 \in keyResult.consulted

\* the config file was written
Saved == keyResult.saved # NoKey

C22_CaptureOptionsReachCapture ==
  screenshotOptions.set =>
    /\ screenshotOptions.waitTime = validatedOptions.wait
    /\ screenshotOptions.waitFor = validatedOptions.waitFor
    /\ screenshotOptions.quality = validatedOptions.quality
    /\ screenshotOptions.fullPage = validatedOptions.fullPage

\* the call was made without a user-supplied output path
TemporaryRun == isTemporary(analysisOptionsOf(validatedOptions))

\* C28: when analyzeWebsite returns from a call without a user-supplied output
\* path (Success, vision Failure, or capture Failure after the subprocess
\* wrote its file) the temporary screenshot file no longer exists, unless its
\* deletion itself failed.
C28_TemporaryFileGone ==
  (pc = "returned" /\ TemporaryRun /\ cleanup # "failed") => TempPath \notin files

\* C29: when analyzeWebsite returns Success, the screenshotPath of the result
\* names a file that exists.
C29_ScreenshotPathExists ==
  (pc = "returned" /\ websiteResult.tag = "Ok") => websiteResult.screenshotPath \in files

\* ------------------------------------------ claims: responses without content

\* a 2xx completion with an empty choices list, or whose message has no content
NoContentResponses == {"OkEmpty", "OkNoChoices"}

\* the k-th remote call answered without content and the answer was handled
NoContentHandled(k) ==
  /\ Calls[k].resp \in NoContentResponses
  /\ (k < Len(Calls) \/ pc # "race")

\* the invocation ended at its k-th call with a Failure of the given type and
\* code INVALID_RESPONSE
EndedAsInvalidResponse(k, type) ==
  /\ k = Len(Calls)
  /\ pc = "done"
  /\ result.tag = "Err"
  /\ result.type = type
  /\ result.code = "INVALID_RESPONSE"

C23_OneCallInFlight ==
  Cardinality(inFlight) <= 1

\* C24: once analyzeScreenshot has returned, no timeout timer or backoff timer
\* set by the invocation is still pending and able to keep the process alive.
C24_NoTimerLeft ==
  (pc = "done" /\ result.tag # "none") => timers = {}

\* the bound of the claim: four windows and the backoff sum 1000 + 2000 + 4000
TotalTimeBound == 4 * timeout + (1000 + 2000 + 4000)

\* C25: each attempt's timeout window starts when its remote call is issued and
\* lasts the full timeout; the invocation takes at most 4 * timeout + 7000 ms;
\* no backoff delay exceeds 4000 ms.
C25_WindowsAndTotalTime ==
  /\ \A tm \in timers : tm.kind = "timeout" => tm.due = tm.setAt + timeout
  /\ pc = "race" =>
       \E tm \in timers : tm.kind = "timeout" /\ tm.call = Len(Calls) /\ tm.setAt = now
  /\ now <= TotalTimeBound
  /\ \A i \in 1..Len(Delays) : Delays[i].ms <= 4000

\* four attempts time out one after the other: the bound is reached
C25_Witness ==
  /\ pc = "done"
  /\ Len(Calls) = 4
  /\ \A k \in 1..4 : Calls[k].resp = "Hang"
  /\ now = TotalTimeBound

\* what the invocation returns when the attempt that got `resp` is its last
OutcomeOf(resp) ==
  LET r == attemptApiRequest(resp)
  IN IF r.ok THEN r.val ELSE handleError(r.err)

\* the attempt that got `resp` is followed by another one while budget remains
Retried(resp) ==
  LET r == attemptApiRequest(resp)
  IN ~r.ok /\ ~shouldNotRetry(r.err)

\* C27: the outcome is determined only by the attempt that is current when the
\* invocation settles; a response that arrives from a remote call after its
\* attempt timed out never becomes the outcome, never changes the attempt
\* counter, and never triggers or suppresses a retry.
C27_LateResponsesIgnored ==
  /\ (pc = "done" /\ Len(Calls) >= 1) =>
       /\ result = OutcomeOf(LastCall)
       /\ (Retried(LastCall) => Len(Calls) = maxRetries + 1)
  /\ \A k \in 1..(Len(Calls) - 1) : Retried(Calls[k].resp)
  /\ pc = "race" => attempt = Len(Calls) - 1
  /\ pc \in {"issue", "backoff"} => attempt = Len(Calls)

\* the first call's answer arrived after its attempt had timed out, and the
\* second attempt timed out all the same
C27_Witness ==
  /\ 1 \in late
  /\ Len(Calls) >= 2
  /\ Calls[2].resp = "Hang"
  /\ pc \in {"backoff", "done"}

\* ------------------------------------------------ claims: the end of the run

\* the CLI action ran into a failure
Failed == cliError.set

\* C30: on every failure path of the CLI action no success confirmation is
\* printed after the failure, no later step is started, and the process ends
\* with the non-zero exit code getExitCode(error) of that failure, never with 0,
\* whether it ends through the failsafe timer or by the event loop draining.
C30_FailureExitsNonZero ==
  Failed =>
    /\ stdout = <<>>
    /\ Len(exitCalls) = 1
    /\ processExit.exited =>
         /\ processExit.code = getExitCode(cliError)
         /\ processExit.code # ExitCode.SUCCESS

====
